---- MODULE Spec2Model ----
(***************************************************************************)
(* Model of the z-score anomaly detector of the IIoT-OPCUA analytics       *)
(* services: class AnomalyDetectionZscore of                               *)
(* src/electrical_anomaly_analytics_zscore/src/helper.py.                  *)
(*                                                                         *)
(* Number representation.  Sensor values are integers.  A value that is    *)
(* not a number (a str or None read from the OPC UA node) is NonNumeric.   *)
(*   model_avg      a reduced fraction <<n, d>>, d > 0                     *)
(*   model_std_dev  the SQUARE of the deviation as a reduced fraction      *)
(*                  <<n, d>> (the deviation itself is irrational in        *)
(*                  general); 0.001 is <<1, 1000000>>                      *)
(*   z_score, z_score_thresh   integers in units of 10^-4                  *)
(*                  (round(x, 4) has exactly four decimals)                *)
(*   anomaly_ratio  an integer in units of 10^-3 (round(x, 3))             *)
(***************************************************************************)
EXTENDS Integers, Sequences, FiniteSets, TLC

\* ---------------------------------------------------------------- bounds
MaxModelSize == 3
MaxListSize == 1
\* the largest anomaly_list_size of the anomaly ratio specification
MaxRatioListSize == 3

\* ---------------------------------------------------------------- inputs
\* the value of `value` when it is not a number
NonNumeric == 99999
\* sensor values offered to check_if_anomaly
NumericValues == {-2, 1, 2, 3}
Values == NumericValues \cup {NonNumeric}
\* thresholds handed to the z_score_thresh setter: -1.0, 0 and 5.0
Thresholds == {-10000, 0, 50000}

IsNumeric(v) == v # NonNumeric

\* ------------------------------------------------------------ arithmetic
Abs(x) == IF x < 0 THEN -x ELSE x

RECURSIVE GCD(_, _)
GCD(a, b) == IF b = 0 THEN a ELSE GCD(b, a % b)

\* the fraction n/d (d # 0) in lowest terms with a positive denominator
Rat(n, d) ==
    LET g == GCD(Abs(n), Abs(d))
        s == IF d < 0 THEN -1 ELSE 1
    IN  <<(s * n) \div g, (s * d) \div g>>

RatAbs(r) == <<Abs(r[1]), r[2]>>

RECURSIVE SeqSum(_)
SeqSum(s) == IF s = <<>> THEN 0 ELSE Head(s) + SeqSum(Tail(s))

RECURSIVE SeqSumSq(_)
SeqSumSq(s) == IF s = <<>> THEN 0 ELSE Head(s) * Head(s) + SeqSumSq(Tail(s))

\* round(n/d) for d > 0, ties to the even neighbour as Python's round()
RoundDiv(n, d) ==
    LET a == Abs(n)
        q == a \div d
        r == a % d
        m == IF 2 * r > d \/ (2 * r = d /\ q % 2 = 1) THEN q + 1 ELSE q
    IN  IF n < 0 THEN -m ELSE m

\* floor(sqrt(n)) for n >= 0
RECURSIVE ISqrt(_)
ISqrt(n) ==
    IF n < 2 THEN n
    ELSE LET s == 2 * ISqrt(n \div 4)
         IN  IF (s + 1) * (s + 1) <= n THEN s + 1 ELSE s

IsSquare(n) == ISqrt(n) * ISqrt(n) = n

\* one more decimal digit of sqrt(A/B): from b = floor(10^j sqrt(A/B)) and
\* rem = 10^2j A - b^2 B to the same pair for j + 1, `digits` times
RECURSIVE SqrtRefine(_, _, _, _)
SqrtRefine(b, rem, B, digits) ==
    IF digits = 0 THEN <<b, rem>>
    ELSE LET Left(d) == 100 * rem - (20 * b * d + d * d) * B
             d == CHOOSE x \in 0..9 : Left(x) >= 0 /\ (x = 9 \/ Left(x + 1) < 0)
         IN  SqrtRefine(10 * b + d, Left(d), B, digits - 1)

\* round(10^4 * sqrt(A/B)) for integers A >= 0, B > 0
RoundSqrt4(A, B) ==
    LET b0 == ISqrt(A \div B)
        r  == SqrtRefine(b0, A - b0 * b0 * B, B, 4)
    IN  IF 4 * r[1] * B + B <= 4 * r[2] THEN r[1] + 1 ELSE r[1]

\* ------------------------------------------------------ statistics module
AllNumeric(data) == \A i \in 1..Len(data) : IsNumeric(data[i])

\* statistics.mean(data): the exact mean of a non-empty numeric list
Mean(data) == Rat(SeqSum(data), Len(data))

\* statistics.stdev(data) squared: the sample variance
\* sum((x - mean)^2) / (n - 1) = (n sum(x^2) - sum(x)^2) / (n (n - 1)), n >= 2
StdevSq(data) ==
    LET n == Len(data)
    IN  Rat(n * SeqSumSq(data) - SeqSum(data) * SeqSum(data), n * (n - 1))

\* 0.001 squared
StdFloor == <<1, 1000000>>

\* a z-score of the signed value: round((value - avg) / std_dev, 4)
ZScoreSigned(value, avg, var) ==
    LET P == value * avg[2] - avg[1]
    IN  IF IsSquare(var[1]) /\ IsSquare(var[2])
        THEN RoundDiv(10000 * P * ISqrt(var[2]), avg[2] * ISqrt(var[1]))
        ELSE LET g == GCD(P * P * var[2], avg[2] * avg[2] * var[1])
                 k == RoundSqrt4((P * P * var[2]) \div g,
                                 (avg[2] * avg[2] * var[1]) \div g)
             IN  IF P < 0 THEN -k ELSE k

\* round((abs(value) - avg) / std_dev, 4) in units of 10^-4, std_dev given by
\* its square var.  With abs(value) - avg = P/avg[2] the quotient is
\* P sqrt(var[2]) / (avg[2] sqrt(var[1])).
ZScore(value, avg, var) ==
    LET P == Abs(value) * avg[2] - avg[1]
    IN  IF IsSquare(var[1]) /\ IsSquare(var[2])
        THEN RoundDiv(10000 * P * ISqrt(var[2]), avg[2] * ISqrt(var[1]))
        ELSE LET g == GCD(P * P * var[2], avg[2] * avg[2] * var[1])
                 k == RoundSqrt4((P * P * var[2]) \div g,
                                 (avg[2] * avg[2] * var[1]) \div g)
             IN  IF P < 0 THEN -k ELSE k

\* ------------------------------------------------- AnomalyDetectionZscore
\* the state after __init__(name, model_size, anomaly_list_size, logger)
NewUnit(name, model_size, anomaly_list_size) ==
    [ name              |-> name,
      model_data        |-> <<>>,
      model_size        |-> model_size,
      anomaly_list      |-> <<>>,
      anomaly_list_size |-> anomaly_list_size,
      anomaly_ratio     |-> 0,
      anomaly           |-> 0,
      model_avg         |-> <<0, 1>>,
      model_std_dev     |-> <<0, 1>>,
      z_score           |-> 0,
      z_score_thresh    |-> 0 ]

\* a setter without the zero check
SetZScoreThreshRaw(u, z_score_threshold) ==
    [u EXCEPT !.z_score_thresh = z_score_threshold]

\* the z_score_thresh setter
SetZScoreThresh(u, z_score_threshold) ==
    IF z_score_threshold = 0
    THEN [u EXCEPT !.z_score_thresh = 20000]
    ELSE [u EXCEPT !.z_score_thresh = z_score_threshold]

\* a reset that keeps the statistics of the last classification
ResetKeepStats(u) ==
    [u EXCEPT !.model_data = <<>>,
              !.anomaly_list = <<>>,
              !.anomaly_ratio = 0,
              !.anomaly = 0]

\* a reset that forgets the anomaly list
ResetKeepList(u) ==
    [u EXCEPT !.model_data = <<>>,
              !.anomaly_ratio = 0,
              !.anomaly = 0,
              !.model_avg = <<0, 1>>,
              !.model_std_dev = <<0, 1>>,
              !.z_score = 0]

reset_algorithm(u) ==
    [u EXCEPT !.model_data = <<>>,
              !.anomaly_list = <<>>,
              !.anomaly_ratio = 0,
              !.anomaly = 0,
              !.model_avg = <<0, 1>>,
              !.model_std_dev = <<0, 1>>,
              !.z_score = 0]

is_model_complete(u) == Len(u.model_data) = u.model_size

\* a percentage rounded to the nearest integer instead of truncated
CompletenessRounded(u) ==
    (200 * Len(u.model_data) + u.model_size) \div (2 * u.model_size)

model_completeness(u) == (100 * Len(u.model_data)) \div u.model_size

\* what a try block hands to its except clause: the state reached when the
\* exception was raised, and the exception ("none": the block completed)
Outcome(u, exc) == [unit |-> u, exc |-> exc]

\* `except TypeError` in place of `except Exception`
CaughtTypeError(exc) == exc = "TypeError"

\* `except Exception`: every exception the body can raise derives from it
Caught(exc) == exc \in {"TypeError", "StatisticsError", "IndexError", "ZeroDivisionError"}

\* the result a caller sees: the unit, the exception that escaped the call
\* and whether logger.error was called
Handled(o) ==
    [ unit   |-> o.unit,
      exc    |-> o.exc,
      raised |-> IF o.exc = "none" \/ Caught(o.exc) THEN "none" ELSE o.exc,
      logged |-> o.exc # "none" /\ Caught(o.exc) ]

\* a ratio that is computed as soon as the list becomes full
RatioBodyOnFill(u) ==
    IF is_model_complete(u)
    THEN LET l == IF Len(u.anomaly_list) < u.anomaly_list_size
                  THEN Append(u.anomaly_list, u.anomaly)
                  ELSE Append(Tail(u.anomaly_list), u.anomaly)
         IN  Outcome([u EXCEPT !.anomaly_list = l,
                               !.anomaly_ratio =
                                  IF Len(l) = u.anomaly_list_size
                                  THEN RoundDiv(1000 * SeqSum(l), u.anomaly_list_size)
                                  ELSE @],
                     "none")
    ELSE Outcome(u, "none")

\* a ratio that is computed on every call
RatioBodyAlways(u) ==
    IF is_model_complete(u)
    THEN LET l == IF Len(u.anomaly_list) < u.anomaly_list_size
                  THEN Append(u.anomaly_list, u.anomaly)
                  ELSE Append(Tail(u.anomaly_list), u.anomaly)
         IN  Outcome([u EXCEPT !.anomaly_list = l,
                               !.anomaly_ratio =
                                  RoundDiv(1000 * SeqSum(l), u.anomaly_list_size)],
                     "none")
    ELSE Outcome(u, "none")

\* a list that evicts its newest flag
RatioBodyEvictNewest(u) ==
    IF is_model_complete(u)
    THEN IF Len(u.anomaly_list) < u.anomaly_list_size
         THEN Outcome([u EXCEPT !.anomaly_list = Append(@, u.anomaly)], "none")
         ELSE LET l == Append(SubSeq(u.anomaly_list, 1, Len(u.anomaly_list) - 1),
                              u.anomaly)
              IN  Outcome([u EXCEPT !.anomaly_list = l,
                                    !.anomaly_ratio =
                                       RoundDiv(1000 * SeqSum(l), u.anomaly_list_size)],
                          "none")
    ELSE Outcome(u, "none")

\* a ratio recorded whether or not the model is complete
RatioBodyUnguarded(u) ==
    IF Len(u.anomaly_list) < u.anomaly_list_size
    THEN Outcome([u EXCEPT !.anomaly_list = Append(@, u.anomaly)], "none")
    ELSE LET l == Append(Tail(u.anomaly_list), u.anomaly)
         IN  Outcome([u EXCEPT !.anomaly_list = l,
                               !.anomaly_ratio =
                                  RoundDiv(1000 * SeqSum(l), u.anomaly_list_size)],
                     "none")

\* body of the try block of calculate_anomaly_ratio
RatioBody(u) ==
    IF is_model_complete(u)
    THEN IF Len(u.anomaly_list) < u.anomaly_list_size
         THEN Outcome([u EXCEPT !.anomaly_list = Append(@, u.anomaly)], "none")
         ELSE IF u.anomaly_list = <<>>
              THEN Outcome(u, "IndexError")
              ELSE LET l == Append(Tail(u.anomaly_list), u.anomaly)
                   IN  Outcome([u EXCEPT !.anomaly_list = l,
                                         !.anomaly_ratio =
                                            RoundDiv(1000 * SeqSum(l), u.anomaly_list_size)],
                               "none")
    ELSE Outcome(u, "none")

calculate_anomaly_ratio(u) == Handled(RatioBody(u))

\* a window that slides by repeating its newest element
SlideRepeatNewest(u, value) ==
    [u EXCEPT !.model_data = Append(Tail(@), @[Len(@)]), !.anomaly = 0]

\* a window that grows instead of sliding
SlideNoPop(u, value) ==
    [u EXCEPT !.model_data = Append(@, value), !.anomaly = 0]

\* a window that evicts its newest element
SlideEvictNewest(u, value) ==
    [u EXCEPT !.model_data = Append(SubSeq(@, 1, Len(@) - 1), value), !.anomaly = 0]

\* the else branch of the threshold test: model_data.pop(0), append(value),
\* anomaly = 0
Slide(u, value) ==
    [u EXCEPT !.model_data = Append(Tail(@), value), !.anomaly = 0]

\* a threshold test that lets an anomalous value overwrite the newest one
ClassifyAdapt(u, value) ==
    IF Abs(u.z_score) > u.z_score_thresh
    THEN [u EXCEPT !.anomaly = 1,
                   !.model_data = Append(SubSeq(@, 1, Len(@) - 1), value)]
    ELSE Slide(u, value)

\* a threshold test that also absorbs the anomalous value
ClassifyAbsorb(u, value) ==
    IF Abs(u.z_score) > u.z_score_thresh
    THEN [Slide(u, value) EXCEPT !.anomaly = 1]
    ELSE Slide(u, value)

\* the threshold test on the z-score just computed
Classify(u, value) ==
    IF Abs(u.z_score) > u.z_score_thresh
    THEN [u EXCEPT !.anomaly = 1]
    ELSE Slide(u, value)

\* model building that also keeps a running average
BuildModelStats(u, value) ==
    [u EXCEPT !.model_data = Append(@, value),
              !.model_avg = IF IsNumeric(value) THEN <<Abs(value), 1>> ELSE @]

\* the else branch of check_if_anomaly: the window is not full yet
BuildModel(u, value) ==
    [u EXCEPT !.model_data = Append(@, value)]

\* body of the try block of check_if_anomaly, statement by statement
CheckBody(u, value) ==
    IF is_model_complete(u)
    THEN IF ~AllNumeric(u.model_data)
         THEN Outcome(u, "TypeError")
         ELSE LET u1 == [u EXCEPT !.model_avg = RatAbs(Mean(u.model_data))]
              IN  IF Len(u.model_data) < 2
                  THEN Outcome(u1, "StatisticsError")
                  ELSE LET sd == StdevSq(u.model_data)
                           u2 == [u1 EXCEPT !.model_std_dev =
                                     IF sd[1] = 0 THEN StdFloor ELSE sd]
                       IN  IF ~IsNumeric(value)
                           THEN Outcome(u2, "TypeError")
                           ELSE LET u3 == [u2 EXCEPT !.z_score =
                                              ZScore(value, u2.model_avg, u2.model_std_dev)]
                                IN  Outcome(Classify(u3, value), "none")
    ELSE Outcome(BuildModel(u, value), "none")

check_if_anomaly(u, value) == Handled(CheckBody(u, value))

\* ------------------------------------------------------------------ state
VARIABLES
    unit,   \* the fields of one AnomalyDetectionZscore object
    last,   \* the last call made on it: operation, argument, whether the
            \* window was full when it was made, exception raised inside it,
            \* exception that reached the caller, whether logger.error ran
    dets,   \* the AnomalyDetectionZscore objects an OpcHandlerAnalytics owns,
            \* by attribute name (none in the single unit specifications)
    el,     \* the ElectricalAnalytics object of the electrical pipeline
    loop    \* the polling loop of read_values

vars == <<unit, last, dets, el, loop>>

\* the state after ElectricalAnalytics.__init__
NewElectricalAnalytics ==
    [ el_current_ph1_samples |-> <<>>,
      el_current_ph2_samples |-> <<>>,
      el_current_ph3_samples |-> <<>>,
      el_current_integr_ph1_total |-> 0,
      el_current_integr_ph2_total |-> 0,
      el_current_integr_ph3_total |-> 0 ]

\* read_values before its first iteration: the process runs, the local
\* opc_node_children is not assigned, measurement_last_ts is empty
NewLoop ==
    [ alive |-> TRUE, bound |-> FALSE, polls |-> 0, measurement_last_ts |-> <<>> ]

\* a unit used on its own: no handler, no pipeline
NoPipeline ==
    /\ dets = <<>>
    /\ el = NewElectricalAnalytics
    /\ loop = NewLoop

Call(op, arg, full, r) ==
    [op |-> op, arg |-> arg, full |-> full,
     exc |-> r.exc, raised |-> r.raised, logged |-> r.logged]

\* a call that cannot raise; logged: it called logger.error
Plain(u, logged) == [unit |-> u, exc |-> "none", raised |-> "none", logged |-> logged]

Init ==
    /\ \E n \in 1..MaxModelSize, r \in 1..MaxListSize :
          unit = NewUnit("sensor_analytics", n, r)
    /\ last = Call("__init__", 0, FALSE, Plain(unit, FALSE))
    /\ NoPipeline

SetThreshold ==
    \E t \in Thresholds :
        /\ unit' = SetZScoreThresh(unit, t)
        /\ last' = Call("z_score_thresh", t, is_model_complete(unit), Plain(unit, t = 0))
        /\ UNCHANGED <<dets, el, loop>>

CheckIfAnomaly ==
    \E v \in Values :
        LET r == check_if_anomaly(unit, v)
        IN  /\ unit' = r.unit
            /\ last' = Call("check_if_anomaly", v, is_model_complete(unit), r)
            /\ UNCHANGED <<dets, el, loop>>

CalculateAnomalyRatio ==
    LET r == calculate_anomaly_ratio(unit)
    IN  /\ unit' = r.unit
        /\ last' = Call("calculate_anomaly_ratio", 0, is_model_complete(unit), r)
        /\ UNCHANGED <<dets, el, loop>>

ResetAlgorithm ==
    /\ unit' = reset_algorithm(unit)
    /\ last' = Call("reset_algorithm", 0, is_model_complete(unit), Plain(unit, FALSE))
    /\ UNCHANGED <<dets, el, loop>>

Next ==
    \/ SetThreshold
    \/ CheckIfAnomaly
    \/ CalculateAnomalyRatio
    \/ ResetAlgorithm

Spec == Init /\ [][Next]_vars

\* the anomaly ratio specification: a unit with a window of two values and
\* an anomaly list of up to MaxRatioListSize flags
InitRatio ==
    /\ \E r \in 1..MaxRatioListSize : unit = NewUnit("sensor_analytics", 2, r)
    /\ last = Call("__init__", 0, FALSE, Plain(unit, FALSE))
    /\ NoPipeline

SpecRatio == InitRatio /\ [][Next]_vars

\* the same calls on a unit of capacity 1, 2 or 3 with an anomaly list of one
\* entry, for properties that compare two calls in every state
SignModelSizes == {1, 2, 3}

InitSign ==
    /\ \E n \in SignModelSizes : unit = NewUnit("sensor_analytics", n, 1)
    /\ last = Call("__init__", 0, FALSE, Plain(unit, FALSE))
    /\ NoPipeline

SpecSign == InitSign /\ [][Next]_vars

\* ------------------------------------------- a reset unit and a new unit
\* dets.used is a unit that is used and then reset; dets.fresh is created at
\* that moment with the same sizes and the same threshold, handed to the
\* setter when the used unit has one; from then on both receive every call.
Twinned == "fresh" \in DOMAIN dets

InitTwin ==
    /\ unit = NewUnit("sensor_analytics", 2, 1)
    /\ last = Call("__init__", 0, FALSE, Plain(unit, FALSE))
    /\ dets = [k \in {"used"} |-> NewUnit("used", 2, 1)]
    /\ el = NewElectricalAnalytics
    /\ loop = NewLoop

TwinUse ==
    /\ ~Twinned
    /\ \/ \E t \in Thresholds :
             /\ dets' = [dets EXCEPT !.used = SetZScoreThresh(@, t)]
             /\ last' = Call("z_score_thresh", t, is_model_complete(dets.used),
                             Plain(dets.used, t = 0))
       \/ \E v \in Values :
             LET r == check_if_anomaly(dets.used, v)
             IN  /\ dets' = [dets EXCEPT !.used = r.unit]
                 /\ last' = Call("check_if_anomaly", v, is_model_complete(dets.used), r)
       \/ LET r == calculate_anomaly_ratio(dets.used)
          IN  /\ dets' = [dets EXCEPT !.used = r.unit]
              /\ last' = Call("calculate_anomaly_ratio", 0,
                              is_model_complete(dets.used), r)
    /\ UNCHANGED <<unit, el, loop>>

TwinResetAndCreate ==
    /\ ~Twinned
    /\ LET u == dets.used
           new == NewUnit("fresh", u.model_size, u.anomaly_list_size)
       IN  dets' = [k \in {"used", "fresh"} |->
                      IF k = "used" THEN reset_algorithm(u)
                      ELSE IF u.z_score_thresh = 0 THEN new
                      ELSE SetZScoreThresh(new, u.z_score_thresh)]
    /\ last' = Call("reset_algorithm", 0, is_model_complete(dets.used),
                    Plain(dets.used, FALSE))
    /\ UNCHANGED <<unit, el, loop>>

TwinCheckIfAnomaly ==
    /\ Twinned
    /\ \E v \in Values :
          /\ dets' = [k \in DOMAIN dets |-> check_if_anomaly(dets[k], v).unit]
          /\ last' = Call("check_if_anomaly", v, is_model_complete(dets.used),
                          check_if_anomaly(dets.used, v))
    /\ UNCHANGED <<unit, el, loop>>

TwinCalculateAnomalyRatio ==
    /\ Twinned
    /\ dets' = [k \in DOMAIN dets |-> calculate_anomaly_ratio(dets[k]).unit]
    /\ last' = Call("calculate_anomaly_ratio", 0, is_model_complete(dets.used),
                    calculate_anomaly_ratio(dets.used))
    /\ UNCHANGED <<unit, el, loop>>

NextTwin ==
    \/ TwinUse
    \/ TwinResetAndCreate
    \/ TwinCheckIfAnomaly
    \/ TwinCalculateAnomalyRatio

SpecTwin == InitTwin /\ [][NextTwin]_vars

\* ------------------------------------------------ the air-valve pipeline
\* OpcHandlerAnalytics of the air-valve script: sensor_analytics (unit) and
\* one unit per travel-time type (dets, keyed as air_valve_dict).
MaxValveCalls == 3
ValveModelSize == 2
ValveListSize == 1
Z_SCORE_THRESHOLD == 20000
ValveTimes == {1, 3}
TimeTypes == {"ExtendCmdTime", "ExtendTime", "RetractCmdTime", "RetractTime"}
UnknownTimeType == "Unknown"

ValveUnitName(tt) ==
    CASE tt = "ExtendCmdTime"  -> "AirValveExtendCmd"
      [] tt = "ExtendTime"     -> "AirValveExtend"
      [] tt = "RetractCmdTime" -> "AirValveRetractCmd"
      [] tt = "RetractTime"    -> "AirValveRetract"

air_valve_dict == [tt \in TimeTypes |->
                      NewUnit(ValveUnitName(tt), ValveModelSize, ValveListSize)]

\* setter, check_if_anomaly and calculate_anomaly_ratio on the unit obj, and
\* the tuple returned (its fourth component is obj.model_std_dev), for the
\* value z_score_threshold of the environment variable Z_SCORE_THRESHOLD
TimeTypeBodyWith(obj, time_value, z_score_threshold) ==
    LET c == check_if_anomaly(SetZScoreThresh(obj, z_score_threshold), time_value)
        r == calculate_anomaly_ratio(c.unit)
    IN  IF c.raised # "none" THEN [unit |-> c.unit, exc |-> c.raised, ret |-> <<>>]
        ELSE IF r.raised # "none" THEN [unit |-> r.unit, exc |-> r.raised, ret |-> <<>>]
        ELSE [unit |-> r.unit, exc |-> "none",
              ret |-> <<r.unit.anomaly, r.unit.anomaly_ratio, r.unit.model_avg,
                        r.unit.model_std_dev, r.unit.z_score_thresh>>]

\* the same with the default of Z_SCORE_THRESHOLD
TimeTypeBody(obj, time_value) ==
    TimeTypeBodyWith(obj, time_value, Z_SCORE_THRESHOLD)

\* a lookup that hands every time type the unit of ExtendTime
TimeTypeSharedUnit(d, time_type, time_value) ==
    IF time_type \notin DOMAIN d
    THEN [dets |-> d, exc |-> "KeyError", ret |-> <<>>]
    ELSE LET b == TimeTypeBody(d["ExtendTime"], time_value)
         IN  [dets |-> [d EXCEPT !["ExtendTime"] = b.unit], exc |-> b.exc, ret |-> b.ret]

time_type_analytics(d, time_type, time_value) ==
    IF time_type \notin DOMAIN d
    THEN [dets |-> d, exc |-> "KeyError", ret |-> <<>>]
    ELSE LET b == TimeTypeBody(d[time_type], time_value)
         IN  [dets |-> [d EXCEPT ![time_type] = b.unit], exc |-> b.exc, ret |-> b.ret]

\* the units after time_type_analytics was called with each value of times
\* for every time type
RECURSIVE Warmed(_, _)
Warmed(d, times) ==
    IF times = <<>> THEN d
    ELSE Warmed([tt \in DOMAIN d |-> TimeTypeBody(d[tt], Head(times)).unit],
                Tail(times))

ValveCall(op, arg, target, exc, ret) ==
    [op |-> op, arg |-> arg, target |-> target, exc |-> exc, ret |-> ret,
     n |-> IF op = "__init__" THEN 0 ELSE last.n + 1]

InitValve ==
    /\ unit = NewUnit("sensor_analytics", ValveModelSize, ValveListSize)
    /\ \E times \in {<<>>, <<1, 1>>} : dets = Warmed(air_valve_dict, times)
    /\ last = ValveCall("__init__", 0, "none", "none", <<>>)
    /\ el = NewElectricalAnalytics
    /\ loop = NewLoop

ValveTimeTypeAnalytics ==
    /\ last.n < MaxValveCalls
    /\ \E tt \in TimeTypes \cup {UnknownTimeType}, v \in ValveTimes :
          LET r == time_type_analytics(dets, tt, v)
          IN  /\ dets' = r.dets
              /\ last' = ValveCall("time_type_analytics", v, tt, r.exc, r.ret)
    /\ UNCHANGED <<unit, el, loop>>

ValveSetThreshold ==
    /\ last.n < MaxValveCalls
    /\ \E k \in DOMAIN dets, t \in Thresholds :
          /\ dets' = [dets EXCEPT ![k] = SetZScoreThresh(@, t)]
          /\ last' = ValveCall("z_score_thresh", t, k, "none", <<>>)
    /\ UNCHANGED <<unit, el, loop>>

ValveCheckIfAnomaly ==
    /\ last.n < MaxValveCalls
    /\ \E k \in DOMAIN dets, v \in ValveTimes :
          LET r == check_if_anomaly(dets[k], v)
          IN  /\ dets' = [dets EXCEPT ![k] = r.unit]
              /\ last' = ValveCall("check_if_anomaly", v, k, r.raised, <<>>)
    /\ UNCHANGED <<unit, el, loop>>

ValveCalculateAnomalyRatio ==
    /\ last.n < MaxValveCalls
    /\ \E k \in DOMAIN dets :
          LET r == calculate_anomaly_ratio(dets[k])
          IN  /\ dets' = [dets EXCEPT ![k] = r.unit]
              /\ last' = ValveCall("calculate_anomaly_ratio", 0, k, r.raised, <<>>)
    /\ UNCHANGED <<unit, el, loop>>

ValveResetAlgorithm ==
    /\ last.n < MaxValveCalls
    /\ \E k \in DOMAIN dets :
          /\ dets' = [dets EXCEPT ![k] = reset_algorithm(@)]
          /\ last' = ValveCall("reset_algorithm", 0, k, "none", <<>>)
    /\ UNCHANGED <<unit, el, loop>>

NextValve ==
    \/ ValveTimeTypeAnalytics
    \/ ValveSetThreshold
    \/ ValveCheckIfAnomaly
    \/ ValveCalculateAnomalyRatio
    \/ ValveResetAlgorithm

SpecValve == InitValve /\ [][NextValve]_vars

\* ------------------------------------------------ the electrical pipeline
\* OpcHandlerAnalytics of the electrical script: three integral units and
\* three inrush units (dets, keyed by attribute name), the sample buffers and
\* totals of ElectricalAnalytics (el) and the polling loop of read_values.
MaxPolls == 5
ElModelSize == 2
ElListSize == 1
CURRENT_PEAK_NUMBER == 1
CURRENT_PEAK_HEIGHT == 1
Phases == 1..3
\* (False, False, False): the value returned when an inrush current is missing
Unavailable == -99999

IntegrKey(p) ==
    CASE p = 1 -> "el_current_integr_ph1_analytics"
      [] p = 2 -> "el_current_integr_ph2_analytics"
      [] p = 3 -> "el_current_integr_ph3_analytics"

InrushKey(p) ==
    CASE p = 1 -> "el_inrush_current_ph1_analytics"
      [] p = 2 -> "el_inrush_current_ph2_analytics"
      [] p = 3 -> "el_inrush_current_ph3_analytics"

ElUnits ==
    [k \in {IntegrKey(p) : p \in Phases} \cup {InrushKey(p) : p \in Phases} |->
        NewUnit(k, ElModelSize, ElListSize)]

PhaseSamples(e, p) ==
    CASE p = 1 -> e.el_current_ph1_samples
      [] p = 2 -> e.el_current_ph2_samples
      [] p = 3 -> e.el_current_ph3_samples

\* an append that leaves out the buffer of phase 3
AppendSamplesTwoPhases(e, phase1, phase2, phase3) ==
    [e EXCEPT !.el_current_ph1_samples = Append(@, phase1),
              !.el_current_ph2_samples = Append(@, phase2)]

\* an append that stores the sample of phase 1 in every buffer
AppendSamplesPhase1(e, phase1, phase2, phase3) ==
    [e EXCEPT !.el_current_ph1_samples = Append(@, phase1),
              !.el_current_ph2_samples = Append(@, phase1),
              !.el_current_ph3_samples = Append(@, phase1)]

append_samples(e, phase1, phase2, phase3) ==
    [e EXCEPT !.el_current_ph1_samples = Append(@, phase1),
              !.el_current_ph2_samples = Append(@, phase2),
              !.el_current_ph3_samples = Append(@, phase3)]

\* a clear that empties the buffer of phase 1 only
ClearSamplesPhase1(e) ==
    [e EXCEPT !.el_current_ph1_samples = <<>>]

clear_samples(e) ==
    [e EXCEPT !.el_current_ph1_samples = <<>>,
              !.el_current_ph2_samples = <<>>,
              !.el_current_ph3_samples = <<>>]

samples_number(e, p) == Len(PhaseSamples(e, p))

\* the setter, check_if_anomaly and calculate_anomaly_ratio on one unit, as
\* both analytics functions call them; neither call raises
Analyse(u, z_threshold, value) ==
    calculate_anomaly_ratio(
        check_if_anomaly(SetZScoreThresh(u, z_threshold), value).unit).unit

\* integral analytics that hand the total of phase 1 to all three units
IntegrAllPhase1(d, e, z_threshold_integr) ==
    LET total(p) == SeqSum(PhaseSamples(e, p))
    IN  [dets |-> [k \in DOMAIN d |->
                     IF \E p \in Phases : k = IntegrKey(p)
                     THEN Analyse(d[k], z_threshold_integr, total(1))
                     ELSE d[k]],
         totals |-> [p \in Phases |-> total(p)]]

calculate_integr_analytics(d, e, z_threshold_integr) ==
    LET total(p) == SeqSum(PhaseSamples(e, p))
    IN  [dets |-> [k \in DOMAIN d |->
                     IF \E p \in Phases : k = IntegrKey(p)
                     THEN LET p == CHOOSE q \in Phases : k = IntegrKey(q)
                          IN  Analyse(d[k], z_threshold_integr, total(p))
                     ELSE d[k]],
         totals |-> [p \in Phases |-> total(p)]]

\* an assymetry relative to the sum of the totals instead of their mean
AssymetryOverSum(t1, t2, t3) ==
    LET s == t1 + t2 + t3
        dev == Abs(3 * t1 - s) + Abs(3 * t2 - s) + Abs(3 * t3 - s)
    IN  IF s = 0 THEN [kind |-> IF dev = 0 THEN "nan" ELSE "inf", value |-> <<0, 1>>]
        ELSE [kind |-> "number", value |-> Rat(100 * dev, 3 * s)]

\* 100 * (|t1 - m| + |t2 - m| + |t3 - m|) / m with m = (t1 + t2 + t3) / 3, as
\* numpy computes it: a division by zero gives nan or inf, no exception
calculate_el_current_assymetry(t1, t2, t3) ==
    LET s == t1 + t2 + t3
        dev == Abs(3 * t1 - s) + Abs(3 * t2 - s) + Abs(3 * t3 - s)
    IN  IF s = 0 THEN [kind |-> IF dev = 0 THEN "nan" ELSE "inf", value |-> <<0, 1>>]
        ELSE [kind |-> "number", value |-> Rat(100 * dev, s)]

RECURSIVE SortedSeq(_)
SortedSeq(S) ==
    IF S = {} THEN <<>>
    ELSE LET m == CHOOSE a \in S : \A b \in S : a <= b
         IN  <<m>> \o SortedSeq(S \ {m})

\* a peak detection that keeps only the peaks higher than height
FindPeaksAbove(x, height) ==
    SortedSeq({i \in 1..Len(x) :
                 /\ x[i] > height
                 /\ \E l \in 2..i, r \in i..(Len(x) - 1) :
                       /\ \A j \in l..r : x[j] = x[i]
                       /\ x[l - 1] < x[i]
                       /\ x[r + 1] < x[i]
                       /\ i = (l + r) \div 2})

\* scipy.signal.find_peaks(x, height): the middle of every plateau that is
\* higher than both its neighbours and at least height; never an edge
find_peaks(x, height) ==
    SortedSeq({i \in 1..Len(x) :
                 /\ x[i] >= height
                 /\ \E l \in 2..i, r \in i..(Len(x) - 1) :
                       /\ \A j \in l..r : x[j] = x[i]
                       /\ x[l - 1] < x[i]
                       /\ x[r + 1] < x[i]
                       /\ i = (l + r) \div 2})

\* the inrush current of one phase, when the phase has enough peaks
HasInrush(x, height_of_peak, peak_number) ==
    LET peaks == find_peaks(x, height_of_peak)
    IN  Len(peaks) > 0 /\ peak_number <= Len(peaks)

InrushCurrent(x, height_of_peak, peak_number) ==
    x[find_peaks(x, height_of_peak)[peak_number]]

\* inrush analytics that return the value of every phase that has one
InrushPerPhase(d, e, z_threshold_inrush, height_of_peak, peak_number) ==
    LET has(p) == HasInrush(PhaseSamples(e, p), height_of_peak, peak_number)
        value(p) == InrushCurrent(PhaseSamples(e, p), height_of_peak, peak_number)
    IN  [dets |-> [k \in DOMAIN d |->
                     IF \E p \in Phases : k = InrushKey(p) /\ has(p)
                     THEN LET p == CHOOSE q \in Phases : k = InrushKey(q)
                          IN  Analyse(d[k], z_threshold_inrush, value(p))
                     ELSE d[k]],
         ret |-> [p \in Phases |-> IF has(p) THEN value(p) ELSE Unavailable],
         logged |-> \E p \in Phases : ~has(p)]

calculate_inrush_current_analytics(d, e, z_threshold_inrush, height_of_peak, peak_number) ==
    LET has(p) == HasInrush(PhaseSamples(e, p), height_of_peak, peak_number)
        value(p) == InrushCurrent(PhaseSamples(e, p), height_of_peak, peak_number)
        all == \A p \in Phases : has(p)
    IN  [dets |-> [k \in DOMAIN d |->
                     IF \E p \in Phases : k = InrushKey(p) /\ has(p)
                     THEN LET p == CHOOSE q \in Phases : k = InrushKey(q)
                          IN  Analyse(d[k], z_threshold_inrush, value(p))
                     ELSE d[k]],
         ret |-> [p \in Phases |-> IF all THEN value(p) ELSE Unavailable],
         logged |-> ~all]

\* the point handed to write_api: every field with the unit it is read from
ElPoint(d, e, assymetry, inrush) ==
    LET integr(p) == d[IntegrKey(p)]
        inr(p) == d[InrushKey(p)]
    IN  [ el_current_assymetry |->
            [kind |-> assymetry.kind,
             value |-> RoundDiv(100 * assymetry.value[1], assymetry.value[2])],
          el_current_integral |->
            <<e.el_current_integr_ph1_total, e.el_current_integr_ph2_total,
              e.el_current_integr_ph3_total>>,
          el_current_integral_z_score |-> [p \in Phases |-> integr(p).z_score],
          el_current_integral_z_score_thresh |->
            [p \in Phases |-> integr(p).z_score_thresh],
          el_current_integral_anomaly |-> [p \in Phases |-> inr(p).anomaly],
          el_current_integral_anomaly_ratio |->
            [p \in Phases |-> inr(p).anomaly_ratio],
          el_inrush_current |-> inrush,
          el_inrush_current_anomaly |-> [p \in Phases |-> inr(1).anomaly],
          el_inrush_current_anomaly_ratio |->
            [p \in Phases |-> inr(1).anomaly_ratio] ]

\* the end of the third branch: the point, when all three inrush currents
\* are there, and clear_samples; e holds the totals, r is the inrush result
AfterInrush(e, assymetry, r) ==
    [dets |-> r.dets,
     el |-> clear_samples(e),
     assymetry |-> assymetry,
     inrush |-> r.ret,
     logged |-> r.logged,
     point |-> IF \A p \in Phases : r.ret[p] # Unavailable
               THEN <<ElPoint(r.dets, e, assymetry, r.ret)>>
               ELSE <<>>]

\* the totals are stored, then assymetry and inrush currents are computed;
\* i is the result of calculate_integr_analytics
AfterIntegr(i, e) ==
    AfterInrush([e EXCEPT !.el_current_integr_ph1_total = i.totals[1],
                          !.el_current_integr_ph2_total = i.totals[2],
                          !.el_current_integr_ph3_total = i.totals[3]],
                calculate_el_current_assymetry(i.totals[1], i.totals[2], i.totals[3]),
                calculate_inrush_current_analytics(i.dets, e, Z_SCORE_THRESHOLD,
                                                   CURRENT_PEAK_HEIGHT,
                                                   CURRENT_PEAK_NUMBER))

\* the third branch of read_values: integrals, assymetry, inrush currents,
\* the point and clear_samples
Finalize(d, e) ==
    AfterIntegr(calculate_integr_analytics(d, e, Z_SCORE_THRESHOLD), e)

\* the handler state after read_values has finalized one cycle per element
\* of cycles, each a sequence of (phase1, phase2, phase3) samples
RECURSIVE Buffered(_, _)
Buffered(e, samples) ==
    IF samples = <<>> THEN e
    ELSE Buffered(append_samples(e, Head(samples)[1], Head(samples)[2],
                                 Head(samples)[3]), Tail(samples))

RECURSIVE Cycled(_, _, _)
Cycled(d, e, cycles) ==
    IF cycles = <<>> THEN [dets |-> d, el |-> e]
    ELSE LET f == Finalize(d, Buffered(e, Head(cycles)))
         IN  Cycled(f.dets, f.el, Tail(cycles))

DeviceName == "device"
Timestamps == {1, 2}
DeviceStates == {"Running", "Stopped"}
SampleTriples == {<<0, 0, 0>>, <<5, 5, 5>>, <<5, 0, 2>>, <<2, 5, 5>>}
PastCycle == << <<0, 0, 0>>, <<5, 5, 5>>, <<5, 5, 5>>, <<0, 0, 0>> >>

\* what one iteration of the loop did; held: the samples each buffer held
\* when the iteration began
Polled(branch, sample, point, written, logged) ==
    [branch |-> branch, sample |-> sample, point |-> point,
     written |-> written, logged |-> logged,
     held |-> [p \in Phases |-> samples_number(el, p)]]

\* measurement_last_ts.get(str(device_name)) != timestamp
NewData(l, timestamp) ==
    IF DeviceName \in DOMAIN l.measurement_last_ts
    THEN l.measurement_last_ts[DeviceName] # timestamp
    ELSE TRUE

\* the loop after an iteration whose read succeeded:
\* measurement_last_ts.update({str(device_name): timestamp})
Stored(l, timestamp) ==
    [l EXCEPT !.polls = @ + 1, !.bound = TRUE,
              !.measurement_last_ts = [k \in {DeviceName} |-> timestamp]]

InitEl ==
    /\ unit = NewUnit("sensor_analytics", ElModelSize, ElListSize)
    /\ \/ /\ dets = ElUnits
          /\ el = NewElectricalAnalytics
          /\ loop = NewLoop
       \/ LET past == Cycled(ElUnits, NewElectricalAnalytics, <<PastCycle, PastCycle>>)
          IN  /\ dets = past.dets
              /\ el = past.el
              /\ \E ts \in Timestamps : loop = [Stored(NewLoop, ts) EXCEPT !.polls = 0]
    /\ last = Polled("start", <<>>, <<>>, FALSE, FALSE)

\* one iteration of the loop of read_values per action, by the branch taken
Polling == loop.alive /\ loop.polls < MaxPolls

\* the read raises; the handler formats opc_node_children, which has no value
\* if get_children has never returned: the exception leaves read_values
PollReadFails ==
    /\ Polling
    /\ \E at \in {"get_children", "get_value"} :
          LET bound == loop.bound \/ at = "get_value"
          IN  /\ loop' = [loop EXCEPT !.polls = @ + 1, !.bound = bound,
                                      !.alive = bound]
              /\ last' = Polled(IF bound THEN "read failed" ELSE "terminated",
                                <<>>, <<>>, FALSE, bound)
    /\ UNCHANGED <<unit, dets, el>>

\* the timestamp is the stored one: no new data
PollDuplicate ==
    /\ Polling
    /\ \E timestamp \in Timestamps :
          /\ ~NewData(loop, timestamp)
          /\ loop' = Stored(loop, timestamp)
          /\ last' = Polled("duplicate", <<>>, <<>>, FALSE, FALSE)
    /\ UNCHANGED <<unit, dets, el>>

\* device_state == "Running": append_samples
PollAccumulate ==
    /\ Polling
    /\ \E timestamp \in Timestamps, sample \in SampleTriples,
          device_state \in DeviceStates :
          /\ NewData(loop, timestamp)
          /\ device_state = "Running"
          /\ el' = append_samples(el, sample[1], sample[2], sample[3])
          /\ loop' = Stored(loop, timestamp)
          /\ last' = Polled("append_samples", sample, <<>>, FALSE, FALSE)
    /\ UNCHANGED <<unit, dets>>

\* device_state != "Running" and synch_pulse is True: clear_samples
PollDiscard ==
    /\ Polling
    /\ \E timestamp \in Timestamps, device_state \in DeviceStates,
          synch_pulse \in BOOLEAN :
          /\ NewData(loop, timestamp)
          /\ device_state # "Running" /\ synch_pulse
          /\ el' = clear_samples(el)
          /\ loop' = Stored(loop, timestamp)
          /\ last' = Polled("clear_samples", <<>>, <<>>, FALSE, FALSE)
    /\ UNCHANGED <<unit, dets>>

\* not Running, no synch pulse, every buffer holds samples: the analytics,
\* the write to InfluxDB (which may fail and is then logged), clear_samples
PollFinalize ==
    /\ Polling
    /\ \A p \in Phases : samples_number(el, p) > 0
    /\ \E timestamp \in Timestamps, influx_ok \in BOOLEAN,
          device_state \in DeviceStates, synch_pulse \in BOOLEAN :
          \E f \in {Finalize(dets, el)} :
              /\ NewData(loop, timestamp)
              /\ device_state # "Running" /\ ~synch_pulse
              /\ dets' = f.dets
              /\ el' = f.el
              /\ loop' = Stored(loop, timestamp)
              /\ last' = Polled("finalize", <<>>, f.point,
                                f.point # <<>> /\ influx_ok,
                                f.logged \/ (f.point # <<>> /\ ~influx_ok))
    /\ UNCHANGED unit

\* not Running, no synch pulse, a buffer is empty: no branch is taken
PollIdle ==
    /\ Polling
    /\ \E p \in Phases : samples_number(el, p) = 0
    /\ \E timestamp \in Timestamps, device_state \in DeviceStates,
          synch_pulse \in BOOLEAN :
          /\ NewData(loop, timestamp)
          /\ device_state # "Running" /\ ~synch_pulse
          /\ loop' = Stored(loop, timestamp)
          /\ last' = Polled("idle", <<>>, <<>>, FALSE, FALSE)
    /\ UNCHANGED <<unit, dets, el>>

NextEl ==
    \/ PollReadFails
    \/ PollDuplicate
    \/ PollAccumulate
    \/ PollDiscard
    \/ PollFinalize
    \/ PollIdle

SpecEl == InitEl /\ [][NextEl]_vars

\* ------------------------------------------- the inrush current of a buffer
\* The selection made for one phase by calculate_inrush_current_analytics,
\* applied to every sample buffer of up to MaxSamples samples (held in el).
MaxSamples == 7
PeakSamples == {0, 5, 8}
PeakHeights == {3, 5}
PeakNumbers == 1..3

InitPeaks ==
    /\ unit = NewUnit("sensor_analytics", ElModelSize, ElListSize)
    /\ dets = ElUnits
    /\ \E n \in 0..MaxSamples : \E x \in [1..n -> PeakSamples] :
          el = [NewElectricalAnalytics EXCEPT !.el_current_ph1_samples = x,
                                              !.el_current_ph2_samples = x,
                                              !.el_current_ph3_samples = x]
    /\ loop = NewLoop
    /\ last = [op |-> "start", height_of_peak |-> 0, peak_number |-> 0, value |-> 0]

SelectInrush ==
    /\ \E height_of_peak \in PeakHeights, peak_number \in PeakNumbers :
          last' = [op |-> "inrush", height_of_peak |-> height_of_peak,
                   peak_number |-> peak_number,
                   value |-> IF HasInrush(el.el_current_ph1_samples,
                                          height_of_peak, peak_number)
                             THEN InrushCurrent(el.el_current_ph1_samples,
                                                height_of_peak, peak_number)
                             ELSE Unavailable]
    /\ UNCHANGED <<unit, dets, el, loop>>

NextPeaks == SelectInrush

SpecPeaks == InitPeaks /\ [][NextPeaks]_vars

\* ------------------------------------------------ the start of the process
\* __main__ of the electrical script: connect_to_server, create_nodes,
\* read_values, in this order.  loop.pc is the call the process is in,
\* loop.server_accepts whether client.connect() would succeed now (the server
\* comes and goes on its own), loop.attempts counts the calls of
\* client.connect() up to MaxAttempts, loop.polls the iterations of
\* read_values.
MaxAttempts == 4
CONNECT_TIMEOUT == 60
RETRY_SLEEP == 3

Min(a, b) == IF a < b THEN a ELSE b

\* a connect loop that gives up after a failed attempt
ConnectOnce(l) ==
    [l EXCEPT !.attempts = Min(@ + 1, MaxAttempts),
              !.connected = l.server_accepts,
              !.slept = IF l.server_accepts THEN @ ELSE Min(@ + RETRY_SLEEP,
                                                            MaxAttempts * RETRY_SLEEP),
              !.pc = "create_nodes"]

\* one iteration of the loop of connect_to_server: client.connect(), break
\* when it returns, log and time.sleep(3) when it raises
Connect(l) ==
    [l EXCEPT !.attempts = Min(@ + 1, MaxAttempts),
              !.connected = l.server_accepts,
              !.slept = IF l.server_accepts THEN @ ELSE Min(@ + RETRY_SLEEP,
                                                            MaxAttempts * RETRY_SLEEP),
              !.pc = IF l.server_accepts THEN "create_nodes" ELSE @]

Started(op, ok) == [op |-> op, ok |-> ok, logged |-> ~ok]

InitMain ==
    /\ unit = NewUnit("sensor_analytics", ElModelSize, ElListSize)
    /\ dets = ElUnits
    /\ el = NewElectricalAnalytics
    /\ \E a \in BOOLEAN :
          loop = [pc |-> "connect_to_server", server_accepts |-> a,
                  timeout |-> CONNECT_TIMEOUT, connected |-> FALSE,
                  attempts |-> 0, slept |-> 0, nodes |-> FALSE, polls |-> 0]
    /\ last = Started("__main__", TRUE)

\* the server starts or stops accepting connections
ServerChanges ==
    /\ loop' = [loop EXCEPT !.server_accepts = ~@]
    /\ UNCHANGED <<unit, dets, el, last>>

ConnectAttempt ==
    /\ loop.pc = "connect_to_server"
    /\ loop' = Connect(loop)
    /\ last' = Started("connect", loop.server_accepts)
    /\ UNCHANGED <<unit, dets, el>>

CreateNodes ==
    /\ loop.pc = "create_nodes"
    /\ loop' = [loop EXCEPT !.nodes = TRUE, !.pc = "read_values"]
    /\ last' = Started("create_nodes", TRUE)
    /\ UNCHANGED <<unit, dets, el>>

\* one iteration of read_values; the read fails when the server is away
ReadValues ==
    /\ loop.pc = "read_values"
    /\ loop.polls < MaxPolls
    /\ loop' = [loop EXCEPT !.polls = @ + 1]
    /\ last' = Started("read_values", loop.server_accepts)
    /\ UNCHANGED <<unit, dets, el>>

NextMain == ServerChanges \/ ConnectAttempt \/ CreateNodes \/ ReadValues

SpecMain == InitMain /\ [][NextMain]_vars

\* the process is never suspended for good: the loop of connect_to_server
\* keeps making attempts, three seconds apart
FairSpecMain == SpecMain /\ WF_vars(ConnectAttempt)

\* ------------------------------------- the polling loop of the air valve
\* read_values of the air-valve script, one iteration per action.  The last
\* timestamp is kept per time type (str(time_type)); new data goes to
\* time_type_analytics, whose KeyError for a time type without a unit is not
\* caught by the loop (only KeyboardInterrupt is) and ends the process.
MaxValvePolls == 4
PolledTimeTypes == {"ExtendTime", "RetractTime", UnknownTimeType}

\* measurement_last_ts.get(str(time_type)) != timestamp
NewDataFor(l, name, timestamp) ==
    IF name \in DOMAIN l.measurement_last_ts
    THEN l.measurement_last_ts[name] # timestamp
    ELSE TRUE

\* measurement_last_ts.update({str(time_type): timestamp})
StoredFor(l, name, timestamp) ==
    [l EXCEPT !.polls = @ + 1, !.bound = TRUE,
              !.measurement_last_ts =
                  [k \in DOMAIN @ \cup {name} |->
                      IF k = name THEN timestamp ELSE @[k]]]

\* what one iteration did; calls: the calls of time_type_analytics it made
ValvePolled(branch, name, timestamp, calls, exc) ==
    [branch |-> branch, name |-> name, timestamp |-> timestamp,
     calls |-> calls, exc |-> exc]

InitValveLoop ==
    /\ unit = NewUnit("sensor_analytics", ValveModelSize, ValveListSize)
    /\ \E times \in {<<>>, <<1, 1>>} : dets = Warmed(air_valve_dict, times)
    /\ el = NewElectricalAnalytics
    /\ loop = NewLoop
    /\ last = ValvePolled("start", "", 0, 0, "none")

ValvePolling == loop.alive /\ loop.polls < MaxValvePolls

\* get_children or a get_value raises: logged and continue, unless
\* opc_node_children is still unbound
ValvePollReadFails ==
    /\ ValvePolling
    /\ \E at \in {"get_children", "get_value"} :
          LET bound == loop.bound \/ at = "get_value"
          IN  /\ loop' = [loop EXCEPT !.polls = @ + 1, !.bound = bound,
                                      !.alive = bound]
              /\ last' = ValvePolled(IF bound THEN "read failed" ELSE "terminated",
                                     "", 0, 0,
                                     IF bound THEN "none" ELSE "UnboundLocalError")
    /\ UNCHANGED <<unit, dets, el>>

\* the timestamp is the one stored for the time type: no new data
ValvePollDuplicate ==
    /\ ValvePolling
    /\ \E time_type \in PolledTimeTypes, timestamp \in Timestamps :
          /\ ~NewDataFor(loop, time_type, timestamp)
          /\ loop' = StoredFor(loop, time_type, timestamp)
          /\ last' = ValvePolled("duplicate", time_type, timestamp, 0, "none")
    /\ UNCHANGED <<unit, dets, el>>

\* new data: time_type_analytics, then the timestamp is stored
ValvePollNewData ==
    /\ ValvePolling
    /\ \E time_type \in PolledTimeTypes, time_value \in ValveTimes,
          timestamp \in Timestamps :
        \E r \in {time_type_analytics(dets, time_type, time_value)} :
          /\ NewDataFor(loop, time_type, timestamp)
          /\ dets' = r.dets
          /\ loop' = IF r.exc = "none"
                     THEN StoredFor(loop, time_type, timestamp)
                     ELSE [loop EXCEPT !.polls = @ + 1, !.bound = TRUE,
                                       !.alive = FALSE]
          /\ last' = ValvePolled(IF r.exc = "none" THEN "new data" ELSE "terminated",
                                 time_type, timestamp, 1, r.exc)
    /\ UNCHANGED <<unit, el>>

NextValveLoop == ValvePollReadFails \/ ValvePollDuplicate \/ ValvePollNewData

SpecValveLoop == InitValveLoop /\ [][NextValveLoop]_vars

\* ------------------------------- the pipelines under a configured threshold
\* One analytics cycle of each of the three pipelines per action, for every
\* value of the environment variable Z_SCORE_THRESHOLD.  unit is the
\* sensor_analytics of the single-signal script, dets holds the units of the
\* air-valve and of the electrical handler.  last.checked names the units
\* check_if_anomaly was called on in the cycle, last.compared those among
\* them whose window was full, so that a z-score was compared.
MaxCycles == 3
SignalModelSize == 2
SignalListSize == 1
EnvThresholds == {0, 20000, -10000}
SignalValues == {1, 3}
SignalName == "sensor_analytics"
EnvCycles == { PastCycle, << <<0, 0, 0>>, <<2, 5, 5>>, <<0, 0, 0>> >> }

PipelineUnit(k) == IF k = SignalName THEN unit ELSE dets[k]

Cycle(op, checked) ==
    [op |-> op, threshold |-> last.threshold, n |-> last.n + 1,
     checked |-> checked,
     compared |-> {k \in checked : is_model_complete(PipelineUnit(k))}]

InitEnv ==
    /\ unit = NewUnit(SignalName, SignalModelSize, SignalListSize)
    /\ dets = [k \in TimeTypes \cup DOMAIN ElUnits |->
                 IF k \in TimeTypes THEN air_valve_dict[k] ELSE ElUnits[k]]
    /\ el = NewElectricalAnalytics
    /\ loop = NewLoop
    /\ \E z \in EnvThresholds :
          last = [op |-> "start", threshold |-> z, n |-> 0,
                  checked |-> {}, compared |-> {}]

\* new data in read_values of the single-signal script
SignalCycle ==
    /\ last.n < MaxCycles
    /\ \E sensor_value \in SignalValues :
          unit' = calculate_anomaly_ratio(
                      check_if_anomaly(SetZScoreThresh(unit, last.threshold),
                                       sensor_value).unit).unit
    /\ last' = Cycle("single_signal", {SignalName})
    /\ UNCHANGED <<dets, el, loop>>

\* time_type_analytics of the air-valve script
ValveCycle ==
    /\ last.n < MaxCycles
    /\ \E time_type \in TimeTypes, time_value \in ValveTimes :
          /\ dets' = [dets EXCEPT ![time_type] =
                         TimeTypeBodyWith(@, time_value, last.threshold).unit]
          /\ last' = Cycle("air_valve", {time_type})
    /\ UNCHANGED <<unit, el, loop>>

\* the integral and inrush analytics of the electrical script on the samples
\* of one cycle
ElectricalCycle ==
    /\ last.n < MaxCycles
    /\ \E samples \in EnvCycles :
        \E e \in {Buffered(el, samples)} :
        \E i \in {calculate_integr_analytics(dets, e, last.threshold)} :
        \E r \in {calculate_inrush_current_analytics(i.dets, e, last.threshold,
                        CURRENT_PEAK_HEIGHT, CURRENT_PEAK_NUMBER)} :
          /\ dets' = r.dets
          /\ last' = Cycle("electrical",
                  {IntegrKey(p) : p \in Phases} \cup
                  {InrushKey(p) : p \in {q \in Phases :
                        HasInrush(PhaseSamples(e, q), CURRENT_PEAK_HEIGHT,
                                  CURRENT_PEAK_NUMBER)}})
    /\ UNCHANGED <<unit, el, loop>>

NextEnv == SignalCycle \/ ValveCycle \/ ElectricalCycle

SpecEnv == InitEnv /\ [][NextEnv]_vars

\* ----------------------------------------------------------------- claims
Checked == last.op = "check_if_anomaly"
\* the last call was a check_if_anomaly that computed a z-score
Classified == Checked /\ last.full /\ last.exc = "none"

\* C1: the window never holds more than model_size values, and a
\* check_if_anomaly call made on a full window leaves it full.
C1_WindowBounded ==
    /\ Len(unit.model_data) <= unit.model_size
    /\ (Checked /\ last.full) => is_model_complete(unit)

\* a classification that slid a full window of the largest size
C1_Witness ==
    /\ Classified /\ unit.anomaly = 0
    /\ unit.model_size = MaxModelSize
    /\ Len(unit.model_data) = unit.model_size

\* C2: a check_if_anomaly call made while the window is not full only appends
\* its value; anomaly, z_score, model_avg and model_std_dev keep their
\* initial values.
C2_ModelBuilding ==
    [][(last'.op = "check_if_anomaly" /\ ~last'.full) =>
          /\ unit'.model_data = Append(unit.model_data, last'.arg)
          /\ unit'.anomaly = 0
          /\ unit'.z_score = 0
          /\ unit'.model_avg = <<0, 1>>
          /\ unit'.model_std_dev = <<0, 1>>]_vars

\* the N-th call of a unit has just completed its window
C2_Witness ==
    /\ Checked /\ ~last.full
    /\ unit.model_size > 1
    /\ is_model_complete(unit)
    /\ unit.model_avg = <<0, 1>> /\ unit.z_score = 0

\* C3: a classification whose |z| exceeds the threshold sets anomaly to 1
\* and leaves the window as it was.
C3_AnomalyNotAbsorbed ==
    [][(last'.op = "check_if_anomaly" /\ last'.full /\ last'.exc = "none"
          /\ Abs(unit'.z_score) > unit'.z_score_thresh) =>
          /\ unit'.anomaly = 1
          /\ unit'.model_data = unit.model_data]_vars

\* value 3 offered to the window [1, 1, 1] under threshold 5.0
C3_Witness ==
    /\ Classified /\ last.arg = 3
    /\ unit.z_score_thresh = 50000
    /\ Abs(unit.z_score) > unit.z_score_thresh
    /\ unit.anomaly = 1
    /\ unit.model_data = <<1, 1, 1>>

\* C4: a classification whose |z| does not exceed the threshold sets anomaly
\* to 0, evicts the oldest value and appends the new one; the full window
\* [1, 2, 3], value 2, threshold 5.0 give anomaly 0 and window [2, 3, 2].
C4_Slide ==
    [][/\ (last'.op = "check_if_anomaly" /\ last'.full /\ last'.exc = "none"
             /\ Abs(unit'.z_score) <= unit'.z_score_thresh) =>
             /\ unit'.anomaly = 0
             /\ unit'.model_data = Append(Tail(unit.model_data), last'.arg)
       /\ (last'.op = "check_if_anomaly" /\ last'.full /\ last'.arg = 2
             /\ unit.model_data = <<1, 2, 3>> /\ unit.z_score_thresh = 50000) =>
             /\ unit'.anomaly = 0
             /\ unit'.model_data = <<2, 3, 2>>]_vars

\* the example: mean 2 and deviation 1 are those of [1, 2, 3]
C4_Witness ==
    /\ Classified /\ last.arg = 2
    /\ unit.z_score_thresh = 50000
    /\ unit.model_avg = <<2, 1>> /\ unit.model_std_dev = <<1, 1>>
    /\ unit.z_score = 0 /\ unit.anomaly = 0
    /\ unit.model_data = <<2, 3, 2>>

ConstantWindow(data) ==
    /\ data # <<>>
    /\ \A i \in 1..Len(data) : IsNumeric(data[i]) /\ data[i] = data[1]

\* C5: on a full window whose values all equal c, check_if_anomaly(v) uses
\* the deviation 0.001 and computes z = (|v| - |c|) / 0.001.
C5_StdFloorOnConstantWindow ==
    [][(last'.op = "check_if_anomaly" /\ last'.full /\ IsNumeric(last'.arg)
          /\ ConstantWindow(unit.model_data)) =>
          /\ unit'.model_avg = <<Abs(unit.model_data[1]), 1>>
          /\ unit'.model_std_dev = StdFloor
          /\ unit'.z_score = 10000000 * (Abs(last'.arg) - Abs(unit.model_data[1]))
          /\ unit'.anomaly = IF Abs(unit'.z_score) > unit'.z_score_thresh THEN 1 ELSE 0]_vars

\* C6: the setter stores 2.0 when handed 0 and the value itself otherwise,
\* and changes no other field.
C6_ThresholdSetter ==
    [][last'.op = "z_score_thresh" =>
          unit' = [unit EXCEPT !.z_score_thresh =
                      IF last'.arg = 0 THEN 20000 ELSE last'.arg]]_vars

\* 0 was handed to the setter of a unit whose other fields are not initial
C6_Witness ==
    /\ last.op = "z_score_thresh" /\ last.arg = 0
    /\ unit.z_score_thresh = 20000
    /\ unit.model_data # <<>> /\ unit.z_score # 0 /\ unit.anomaly_list # <<>>

\* C7: the threshold of a unit is never 0.
C7_ThresholdNeverZero == unit.z_score_thresh # 0

\* C8: under a negative threshold every check_if_anomaly call with a number
\* on a full window sets anomaly to 1 and leaves the window unchanged.
C8_NegativeThresholdFlagsAll ==
    [][(last'.op = "check_if_anomaly" /\ last'.full /\ IsNumeric(last'.arg)
          /\ unit.z_score_thresh < 0) =>
          /\ unit'.anomaly = 1
          /\ unit'.model_data = unit.model_data]_vars

\* C9: a check_if_anomaly call that fails inside its computation changes no
\* field of the unit.
C9_FailureMutatesNothing ==
    [][(last'.op = "check_if_anomaly" /\ last'.exc # "none") => unit' = unit]_vars

\* C10: check_if_anomaly and calculate_anomaly_ratio return normally; a
\* failure inside them is logged.
C10_NeverRaises ==
    last.op \in {"check_if_anomaly", "calculate_anomaly_ratio"} =>
        /\ last.raised = "none"
        /\ last.exc # "none" => last.logged

\* a statistics error and a type error were both swallowed
C10_Witness ==
    /\ Checked /\ last.full
    /\ last.exc \in {"StatisticsError", "TypeError"}
    /\ last.raised = "none" /\ last.logged

Recorded == last.op = "calculate_anomaly_ratio"

\* C11 as claimed: the first R - 1 records leave the ratio at 0.0 and the
\* R-th sets it to sum(flags) / R.
C11_RatioAfterRthRecord ==
    [][(last'.op = "calculate_anomaly_ratio" /\ last'.full
          /\ Len(unit.anomaly_list) < unit.anomaly_list_size) =>
          IF Len(unit.anomaly_list) = unit.anomaly_list_size - 1
          THEN unit'.anomaly_ratio =
                  RoundDiv(1000 * SeqSum(unit'.anomaly_list), unit.anomaly_list_size)
          ELSE unit'.anomaly_ratio = 0]_vars

\* C11 amended: each of the first R records only appends the flag and leaves
\* the ratio at 0.0; every later record evicts the oldest flag, appends the
\* new one and sets the ratio to sum(flags) / R. With R = 3 and flags
\* 1, 1, 1, 1 the ratio is 0.0 after three records and 1.0 after the fourth.
C11_RatioAfterListFull ==
    [][(last'.op = "calculate_anomaly_ratio" /\ last'.full) =>
          IF Len(unit.anomaly_list) < unit.anomaly_list_size
          THEN /\ unit'.anomaly_list = Append(unit.anomaly_list, unit.anomaly)
               /\ unit'.anomaly_ratio = 0
          ELSE /\ unit'.anomaly_list = Append(Tail(unit.anomaly_list), unit.anomaly)
               /\ unit'.anomaly_ratio =
                     RoundDiv(1000 * SeqSum(unit'.anomaly_list), unit.anomaly_list_size)]_vars

\* R = 3: the fourth record of the flags 1, 1, 1, 1 has set the ratio to 1.0
C11_Witness ==
    /\ Recorded /\ last.full
    /\ unit.anomaly_list_size = 3
    /\ unit.anomaly_list = <<1, 1, 1>>
    /\ unit.anomaly_ratio = 1000

\* C12: the ratio is 0.0 as long as the anomaly list is not full and is still
\* 0.0 after the record that fills it; it leaves 0.0 only in a record made on
\* a full list.
C12_RatioStuckAtZero ==
    /\ [](Len(unit.anomaly_list) < unit.anomaly_list_size => unit.anomaly_ratio = 0)
    /\ [][(unit.anomaly_ratio = 0 /\ unit'.anomaly_ratio # 0) =>
             /\ last'.op = "calculate_anomaly_ratio"
             /\ Len(unit.anomaly_list) = unit.anomaly_list_size]_vars

\* R = 3: three flags 1 are recorded and the ratio is still 0.0
C12_Witness ==
    /\ Recorded /\ last.full
    /\ unit.anomaly_list_size = 3
    /\ unit.anomaly_list = <<1, 1, 1>>
    /\ unit.anomaly_ratio = 0

\* C13: the anomaly list holds at most anomaly_list_size flags, each 0 or 1,
\* a record on a full list evicts the oldest flag, and the ratio lies
\* between 0 and 1.
C13_FlagBuffer ==
    /\ [](/\ Len(unit.anomaly_list) <= unit.anomaly_list_size
          /\ \A i \in 1..Len(unit.anomaly_list) : unit.anomaly_list[i] \in {0, 1}
          /\ unit.anomaly_ratio >= 0 /\ unit.anomaly_ratio <= 1000)
    /\ [][(last'.op = "calculate_anomaly_ratio" /\ last'.full
             /\ Len(unit.anomaly_list) = unit.anomaly_list_size) =>
             /\ Len(unit'.anomaly_list) = unit.anomaly_list_size
             /\ \A i \in 1..(Len(unit.anomaly_list) - 1) :
                   unit'.anomaly_list[i] = unit.anomaly_list[i + 1]]_vars

\* a full list of three flags that has slid: ratio 1/3
C13_Witness ==
    /\ Recorded /\ last.full
    /\ unit.anomaly_list = <<0, 0, 1>>
    /\ unit.anomaly_ratio = 333

\* C14: calculate_anomaly_ratio on an incomplete model changes nothing.
C14_IncompleteModelNoFlag ==
    [][(last'.op = "calculate_anomaly_ratio" /\ ~last'.full) => unit' = unit]_vars

\* a record was asked of a unit whose window holds one value of two
C14_Witness ==
    /\ Recorded /\ ~last.full
    /\ Len(unit.model_data) = 1 /\ unit.model_size = 2
    /\ unit.anomaly_list = <<>> /\ unit.anomaly_ratio = 0

\* C15: reset_algorithm empties the window and the anomaly list and gives
\* anomaly ratio, anomaly, mean, deviation and z-score the values of a new
\* unit; model_size, anomaly_list_size and name are unchanged.
C15_Reset ==
    [][last'.op = "reset_algorithm" =>
          LET new == NewUnit(unit.name, unit.model_size, unit.anomaly_list_size)
          IN  /\ unit'.model_data = <<>> /\ unit'.anomaly_list = <<>>
              /\ unit'.anomaly_ratio = new.anomaly_ratio
              /\ unit'.anomaly = new.anomaly
              /\ unit'.model_avg = new.model_avg
              /\ unit'.model_std_dev = new.model_std_dev
              /\ unit'.z_score = new.z_score
              /\ unit'.model_size = unit.model_size
              /\ unit'.anomaly_list_size = unit.anomaly_list_size
              /\ unit'.name = unit.name]_vars

\* a unit with a full window has been reset
C15_Witness ==
    /\ last.op = "reset_algorithm" /\ last.full
    /\ unit.model_data = <<>> /\ unit.anomaly_list = <<>>
    /\ unit.z_score_thresh = 50000

\* the fields C16 compares
Observables(u) ==
    <<u.model_data, u.anomaly_list, u.anomaly, u.z_score, u.model_avg,
      u.model_std_dev, u.anomaly_ratio>>

\* C16: after the same calls a reset unit and a new unit with the same sizes
\* and threshold agree on window, anomaly list, anomaly, z-score, mean,
\* deviation and ratio.
C16_ResetEqualsNew ==
    Twinned => Observables(dets.used) = Observables(dets.fresh)

\* both units have classified an anomaly and report the ratio 1.0, and the
\* used unit had classified before its reset (the threshold was set)
C16_Witness ==
    /\ Twinned
    /\ dets.used.z_score_thresh = 50000
    /\ dets.used.anomaly = 1 /\ dets.fresh.anomaly = 1
    /\ dets.used.anomaly_ratio = 1000 /\ dets.fresh.anomaly_ratio = 1000

\* r, the result of check_if_anomaly on u, is a classification as anomaly
Anomalous(u, r) ==
    is_model_complete(u) /\ r.exc = "none" /\ r.unit.anomaly = 1

AnomalousFor(u, v) == Anomalous(u, check_if_anomaly(u, v))

\* C17: while a unit only receives values it classifies as anomalies (and
\* ratio calls), with no threshold change and no reset, the window stays as
\* it is and every value that was anomalous stays anomalous with the same
\* z-score.
C17_RegimeFlaggedForever ==
    [][(/\ last'.op \in {"check_if_anomaly", "calculate_anomaly_ratio"}
        /\ is_model_complete(unit)
        /\ last'.op = "check_if_anomaly" => unit'.anomaly = 1 /\ last'.exc = "none") =>
          \A v \in Values :
             LET before == check_if_anomaly(unit, v)
                 after  == check_if_anomaly(unit', v)
             IN  Anomalous(unit, before) =>
                    /\ unit'.model_data = unit.model_data
                    /\ Anomalous(unit', after)
                    /\ after.unit.z_score = before.unit.z_score]_vars

\* value 3 has just been classified anomalous against the window [1, 1]
\* under threshold 5.0 and would be classified anomalous again
C17_Witness ==
    /\ Classified /\ last.arg = 3 /\ unit.anomaly = 1
    /\ unit.model_data = <<1, 1>>
    /\ unit.z_score_thresh = 50000
    /\ AnomalousFor(unit, 3)
    /\ check_if_anomaly(unit, 3).unit.z_score = unit.z_score

\* C19: is_model_complete holds exactly when the window length equals the
\* capacity; model_completeness is the integer part of 100 * len / capacity,
\* lies in 0..100 and is 100 exactly when the model is complete.
C19_Completeness ==
    LET q == model_completeness(unit)
        len == Len(unit.model_data)
    IN  /\ is_model_complete(unit) <=> (len = unit.model_size)
        /\ q \in 0..100
        /\ q * unit.model_size <= 100 * len
        /\ 100 * len < (q + 1) * unit.model_size
        /\ (q = 100) <=> is_model_complete(unit)

\* two of three values collected: 66 percent, not complete
C19_Witness ==
    /\ Checked
    /\ unit.model_size = 3 /\ Len(unit.model_data) = 2
    /\ model_completeness(unit) = 66
    /\ ~is_model_complete(unit)

\* C18: a threshold set, check_if_anomaly, calculate_anomaly_ratio or
\* reset_algorithm on one unit, and time_type_analytics for one time type,
\* leave every other unit (sensor_analytics included) exactly as it was; an
\* unknown time type changes no unit at all.
C18_UnitsIndependent ==
    [][/\ unit' = unit
       /\ DOMAIN dets' = DOMAIN dets
       /\ \A k \in DOMAIN dets : k # last'.target => dets'[k] = dets[k]]_vars

\* time_type_analytics("ExtendTime", 3) has flagged an anomaly in the
\* ExtendTime unit while the three other units still hold their windows
C18_Witness ==
    /\ last.op = "time_type_analytics" /\ last.target = "ExtendTime"
    /\ last.arg = 3 /\ last.exc = "none"
    /\ dets["ExtendTime"].anomaly = 1
    /\ \A k \in TimeTypes \ {"ExtendTime"} :
          /\ dets[k].model_data = <<1, 1>>
          /\ dets[k].anomaly = 0
          /\ dets[k].z_score = 0

\* C20: a processed poll with device state Running appends exactly the
\* polled sample to each of the three phase buffers, changes no detector unit
\* and hands no point to InfluxDB.
C20_Accumulate ==
    [][last'.branch = "append_samples" =>
          /\ el'.el_current_ph1_samples = Append(el.el_current_ph1_samples, last'.sample[1])
          /\ el'.el_current_ph2_samples = Append(el.el_current_ph2_samples, last'.sample[2])
          /\ el'.el_current_ph3_samples = Append(el.el_current_ph3_samples, last'.sample[3])
          /\ dets' = dets
          /\ last'.point = <<>> /\ ~last'.written]_vars

\* a Running poll that appended (5, 0, 2) to buffers holding one sample each,
\* with units that already hold full windows
C20_Witness ==
    /\ last.branch = "append_samples" /\ last.sample = <<5, 0, 2>>
    /\ el.el_current_ph1_samples = <<0, 5>>
    /\ el.el_current_ph2_samples = <<0, 0>>
    /\ el.el_current_ph3_samples = <<0, 2>>
    /\ \A k \in DOMAIN dets : is_model_complete(dets[k])

\* the three integral totals
Totals(e) ==
    <<e.el_current_integr_ph1_total, e.el_current_integr_ph2_total,
      e.el_current_integr_ph3_total>>

\* C21: a processed poll with device state not Running and the synch pulse
\* set leaves all three buffers empty, computes no total, changes no detector
\* unit and hands no point to InfluxDB, whatever the buffers held.
C21_Discard ==
    [][last'.branch = "clear_samples" =>
          /\ \A p \in Phases : PhaseSamples(el', p) = <<>>
          /\ Totals(el') = Totals(el)
          /\ dets' = dets
          /\ last'.point = <<>> /\ ~last'.written]_vars

\* a discard of buffers that held three samples each, by a handler whose
\* units hold full windows
C21_Witness ==
    /\ last.branch = "clear_samples"
    /\ \A p \in Phases : last.held[p] = 3 /\ PhaseSamples(el, p) = <<>>
    /\ \A k \in DOMAIN dets : is_model_complete(dets[k])

\* unit u has become unit v by a check_if_anomaly(value) that built the
\* model or computed the z-score of value against the window of u
Offered(u, v, value) ==
    IF is_model_complete(u)
    THEN /\ v.model_avg = RatAbs(Mean(u.model_data))
         /\ v.z_score = ZScore(value, v.model_avg, v.model_std_dev)
         /\ v.anomaly = (IF Abs(v.z_score) > v.z_score_thresh THEN 1 ELSE 0)
         /\ v.model_data = (IF v.anomaly = 1 THEN u.model_data
                            ELSE Append(Tail(u.model_data), value))
    ELSE v.model_data = Append(u.model_data, value)

\* C22: a finalize step stores the sum of each phase buffer as that phase's
\* integral total, offers it to that phase's integral unit and leaves the
\* three buffers empty, with or without a point for the cycle.
C22_Finalize ==
    [][last'.branch = "finalize" =>
          \A p \in Phases :
             /\ Totals(el')[p] = SeqSum(PhaseSamples(el, p))
             /\ Offered(dets[IntegrKey(p)], dets'[IntegrKey(p)], Totals(el')[p])
             /\ PhaseSamples(el', p) = <<>>]_vars

\* a cycle with the totals 5, 0 and 2, each flagged by its own integral unit,
\* that ended without a point because phase 2 had no peak
C22_Witness ==
    /\ last.branch = "finalize" /\ last.point = <<>>
    /\ \A p \in Phases : last.held[p] = 3 /\ PhaseSamples(el, p) = <<>>
    /\ Totals(el) = <<5, 0, 2>>
    /\ \A p \in Phases :
          /\ dets[IntegrKey(p)].model_data = <<10, 10>>
          /\ dets[IntegrKey(p)].anomaly = 1

\* some phase buffer of e has fewer than CURRENT_PEAK_NUMBER peaks
LacksPeaks(e) ==
    \E p \in Phases :
       Len(find_peaks(PhaseSamples(e, p), CURRENT_PEAK_HEIGHT)) < CURRENT_PEAK_NUMBER

\* C23: in a finalize step where some phase has too few peaks,
\* calculate_inrush_current_analytics returns the unavailable marker for all
\* three phases and no point is built or written; a point is built exactly
\* when every phase yielded an inrush current.
C23_InrushAllOrNothing ==
    [][last'.branch = "finalize" =>
          /\ LacksPeaks(el) =>
                /\ \A p \in Phases :
                      calculate_inrush_current_analytics(
                          dets, el, Z_SCORE_THRESHOLD, CURRENT_PEAK_HEIGHT,
                          CURRENT_PEAK_NUMBER).ret[p] = Unavailable
                /\ last'.point = <<>>
                /\ ~last'.written
          /\ ~LacksPeaks(el) => last'.point # <<>>]_vars

\* a cycle in which phase 3 had the peak 2 (flagged by its inrush unit) and
\* phase 2 had none: the missing inrush current was logged, no point built
C23_Witness ==
    /\ last.branch = "finalize" /\ last.logged
    /\ last.point = <<>> /\ ~last.written
    /\ Totals(el) = <<5, 0, 2>>
    /\ dets[InrushKey(3)].model_data = <<5, 5>>
    /\ dets[InrushKey(3)].anomaly = 1
    /\ dets[InrushKey(2)].anomaly = 0

\* the first index of every run of equal samples of x that is higher than
\* the samples on both sides of the run and at least h
PeakRuns(x, h) ==
    {l \in 2..(Len(x) - 1) :
        /\ x[l - 1] < x[l] /\ x[l] >= h
        /\ \E r \in l..(Len(x) - 1) :
              (\A j \in l..r : x[j] = x[l]) /\ x[r + 1] < x[l]}

\* C24: the inrush current is the sample value of the peak_number-th peak,
\* in buffer order, among the peaks at least height_of_peak high, and is
\* unavailable when there are fewer; for [0,0,5,0,0,8,0] and height 3 the
\* peak values are [5,8], number 1 selects 5, 2 selects 8, 3 is unavailable.
C24_InrushIsNthPeak ==
    last.op = "inrush" =>
       LET x == el.el_current_ph1_samples
           runs == PeakRuns(x, last.height_of_peak)
       IN  /\ IF Cardinality(runs) < last.peak_number
              THEN last.value = Unavailable
              ELSE \E l \in runs :
                      /\ Cardinality({k \in runs : k < l}) = last.peak_number - 1
                      /\ last.value = x[l]
           /\ (x = <<0, 0, 5, 0, 0, 8, 0>> /\ last.height_of_peak = 3) =>
                 /\ [i \in 1..Len(find_peaks(x, 3)) |-> x[find_peaks(x, 3)[i]]] = <<5, 8>>
                 /\ last.value = (CASE last.peak_number = 1 -> 5
                                    [] last.peak_number = 2 -> 8
                                    [] last.peak_number = 3 -> Unavailable)

\* the second peak of [0,0,5,0,0,8,0] with height 3
C24_Witness ==
    /\ last.op = "inrush"
    /\ el.el_current_ph1_samples = <<0, 0, 5, 0, 0, 8, 0>>
    /\ last.height_of_peak = 3 /\ last.peak_number = 2
    /\ last.value = 8

\* the assymetry a finalize step computes from the totals it has stored
Assymetry(e) ==
    calculate_el_current_assymetry(e.el_current_integr_ph1_total,
                                   e.el_current_integr_ph2_total,
                                   e.el_current_integr_ph3_total)

\* C25: the assymetry computed by a finalize step is a number, also when the
\* three totals are zero.
C25_ZeroMeanDefined ==
    [][last'.branch = "finalize" => Assymetry(el').kind = "number"]_vars

\* C26: with m = (t1 + t2 + t3) / 3 not zero the assymetry a is
\* 100 * (|t1 - m| + |t2 - m| + |t3 - m|) / m, that is
\* a * (t1 + t2 + t3) = 100 * (|3 t1 - s| + |3 t2 - s| + |3 t3 - s|) with
\* s = t1 + t2 + t3; it is 0 when the totals are equal, as for [10, 10, 10].
C26_Assymetry ==
    [][last'.branch = "finalize" =>
          LET t == Totals(el')
              s == t[1] + t[2] + t[3]
              a == Assymetry(el')
          IN  s # 0 =>
                 /\ a.kind = "number"
                 /\ a.value[1] * s =
                       100 * a.value[2] *
                          (Abs(3 * t[1] - s) + Abs(3 * t[2] - s) + Abs(3 * t[3] - s))
                 /\ (t[1] = t[2] /\ t[2] = t[3]) => a.value = <<0, 1>>
                 /\ calculate_el_current_assymetry(10, 10, 10).value = <<0, 1>>]_vars

\* a cycle with the totals 10, 10, 10 whose point carries the assymetry 0
C26_Witness ==
    /\ last.branch = "finalize" /\ last.point # <<>>
    /\ Totals(el) = <<10, 10, 10>>
    /\ Assymetry(el).value = <<0, 1>>
    /\ last.point[1].el_current_assymetry = [kind |-> "number", value |-> 0]

\* C27: in the point built by a finalize step the anomaly and anomaly ratio
\* fields of each integral and of each inrush current are those of the
\* detector unit of that feature.
C27_FieldsFromOwnUnit ==
    (last.branch = "finalize" /\ last.point # <<>>) =>
       \A p \in Phases :
          /\ last.point[1].el_current_integral_anomaly[p] = dets[IntegrKey(p)].anomaly
          /\ last.point[1].el_current_integral_anomaly_ratio[p] =
                dets[IntegrKey(p)].anomaly_ratio
          /\ last.point[1].el_inrush_current_anomaly[p] = dets[InrushKey(p)].anomaly
          /\ last.point[1].el_inrush_current_anomaly_ratio[p] =
                dets[InrushKey(p)].anomaly_ratio

\* C28: a cycle adds a flag to the anomaly list of a unit only if the unit
\* computed a classification in that cycle, which takes a window that was
\* already full when the cycle began.
C28_FlagsAreClassifications ==
    [][\A k \in DOMAIN dets :
          dets'[k].anomaly_list # dets[k].anomaly_list =>
             is_model_complete(dets[k])]_vars

\* C29: a finalize step in which some phase has too few peaks leaves the
\* window, anomaly flag, z-score and anomaly list of all three inrush units
\* as they were.
C29_UnavailableChangesNoInrushUnit ==
    [][(last'.branch = "finalize" /\ LacksPeaks(el)) =>
          \A p \in Phases :
             LET u == dets[InrushKey(p)]
                 v == dets'[InrushKey(p)]
             IN  /\ v.model_data = u.model_data
                 /\ v.anomaly = u.anomaly
                 /\ v.z_score = u.z_score
                 /\ v.anomaly_list = u.anomaly_list]_vars

\* C30: the window only ever holds numeric values, and a check_if_anomaly
\* call with a numeric value on a full window of at least two values never
\* fails.
C30_WindowNumeric ==
    /\ AllNumeric(unit.model_data)
    /\ (Checked /\ last.full /\ IsNumeric(last.arg) /\ unit.model_size >= 2) =>
          last.exc = "none"

\* C31: for every capacity, a check_if_anomaly call with a numeric value on
\* a full window of numeric values computes a z-score and sets the anomaly
\* flag from |z| > threshold.
C31_FullWindowClassifies ==
    (Checked /\ last.full /\ IsNumeric(last.arg) /\ AllNumeric(unit.model_data)) =>
       /\ last.exc = "none"
       /\ unit.anomaly = (IF Abs(unit.z_score) > unit.z_score_thresh THEN 1 ELSE 0)

\* C32: the window changes in three ways only: a check_if_anomaly call on a
\* window that is not full appends its value (model building), a
\* classification as non-anomalous evicts the oldest element and appends its
\* value, and reset_algorithm empties the window; a value classified anomalous
\* is not made an element.  Every element of a full window is therefore a
\* value accepted during model building since creation or the last reset, or
\* a value classified non-anomalous when it was offered.
C32_WindowProvenance ==
    [][/\ unit'.model_data # unit.model_data =>
             \/ /\ last'.op = "check_if_anomaly" /\ ~last'.full
                /\ unit'.model_data = Append(unit.model_data, last'.arg)
             \/ /\ last'.op = "check_if_anomaly" /\ last'.full
                /\ last'.exc = "none" /\ unit'.anomaly = 0
                /\ Abs(unit'.z_score) <= unit'.z_score_thresh
                /\ unit'.model_data = Append(Tail(unit.model_data), last'.arg)
             \/ /\ last'.op = "reset_algorithm"
                /\ unit'.model_data = <<>>
       /\ (last'.op = "check_if_anomaly" /\ last'.full /\ unit'.anomaly = 1) =>
             unit'.model_data = unit.model_data]_vars

\* value 3, an element of the window [3, 1] since model building, was offered
\* again and classified anomalous under threshold -1.0: the window is as it
\* was built
C32_Witness ==
    /\ Classified /\ last.arg = 3 /\ unit.anomaly = 1
    /\ unit.z_score_thresh = -10000
    /\ unit.model_data = <<3, 1>>

\* C33: in the single-signal, the air-valve and the electrical pipeline every
\* unit check_if_anomaly was called on holds a non-zero threshold, the one the
\* setter made of Z_SCORE_THRESHOLD (2.0 for 0), so that every z-score
\* comparison is made against a non-zero threshold.
C33_ThresholdNonZero ==
    \A k \in last.checked :
        /\ PipelineUnit(k).z_score_thresh # 0
        /\ PipelineUnit(k).z_score_thresh =
              (IF last.threshold = 0 THEN 20000 ELSE last.threshold)

\* Z_SCORE_THRESHOLD is 0 and the cycle compared a z-score on a full window
C33_Witness ==
    /\ last.threshold = 0
    /\ last.compared # {}
    /\ \A k \in last.compared : PipelineUnit(k).z_score_thresh = 20000

\* C34: in the electrical pipeline the three phase buffers always have the
\* same length; an iteration changes them only by appending one sample to
\* each (append_samples) or by emptying all three (clear_samples, alone or at
\* the end of the analytics).
C34_BuffersSameLength ==
    /\ [](\A p \in Phases : samples_number(el, p) = samples_number(el, 1))
    /\ [][\/ \A p \in Phases : PhaseSamples(el', p) = PhaseSamples(el, p)
          \/ /\ last'.branch = "append_samples"
             /\ \A p \in Phases : samples_number(el', p) = samples_number(el, p) + 1
          \/ /\ last'.branch \in {"clear_samples", "finalize"}
             /\ \A p \in Phases : samples_number(el', p) = 0]_vars

\* a third sample was appended to each buffer, the buffers differing in
\* content
C34_Witness ==
    /\ last.branch = "append_samples"
    /\ \A p \in Phases : last.held[p] = 2 /\ samples_number(el, p) = 3
    /\ el.el_current_ph1_samples # el.el_current_ph2_samples
    /\ el.el_current_ph2_samples # el.el_current_ph3_samples

\* C35: in the polling loop a successful read whose timestamp is the one
\* stored for its name makes no call of the analytics and changes no unit; a
\* read whose timestamp differs is handed to the analytics once, the
\* analytics complete, and the timestamp becomes the one stored for the name.
C35_Deduplication ==
    [][last'.name # "" =>
          IF NewDataFor(loop, last'.name, last'.timestamp)
          THEN /\ last'.calls = 1 /\ last'.exc = "none"
               /\ loop'.alive
               /\ ~NewDataFor(loop', last'.name, last'.timestamp)
          ELSE /\ last'.calls = 0
               /\ dets' = dets
               /\ loop'.measurement_last_ts = loop.measurement_last_ts]_vars

\* the same for reads whose time type has a unit
C35_KnownTimeTypes ==
    [][(last'.name # "" /\ last'.name \in TimeTypes) =>
          IF NewDataFor(loop, last'.name, last'.timestamp)
          THEN /\ last'.calls = 1 /\ last'.exc = "none"
               /\ loop'.alive
               /\ ~NewDataFor(loop', last'.name, last'.timestamp)
               /\ \A k \in DOMAIN loop.measurement_last_ts \ {last'.name} :
                     loop'.measurement_last_ts[k] = loop.measurement_last_ts[k]
          ELSE /\ last'.calls = 0
               /\ dets' = dets
               /\ loop'.measurement_last_ts = loop.measurement_last_ts]_vars

\* C36: an iteration of the polling loop whose read of the OPC UA node fails
\* is logged, changes no detector unit, no sample buffer and no stored
\* timestamp, and leaves the process running, on the first iteration as on
\* every later one.
C36_ReadFailureContinues ==
    [][(loop'.polls = loop.polls + 1 /\ last'.branch \in {"read failed", "terminated"}) =>
          /\ last'.logged
          /\ loop'.alive
          /\ dets' = dets /\ el' = el
          /\ loop'.measurement_last_ts = loop.measurement_last_ts]_vars

\* C37: connect_to_server is left only by an attempt that succeeded, a failed
\* attempt is followed by another one, no node is created and no poll is made
\* before the connection exists, and if from some time on the server accepts
\* connections the call returns.
C37_ConnectBeforeUse ==
    /\ [](loop.pc # "connect_to_server" => loop.connected)
    /\ [][(last'.op = "connect" /\ ~last'.ok) =>
              /\ loop'.pc = "connect_to_server"
              /\ ~loop'.connected /\ ~loop'.nodes /\ loop'.polls = 0]_vars
    /\ []((loop.nodes \/ loop.polls > 0) => loop.connected)
    /\ (<>[]loop.server_accepts => <>(loop.pc # "connect_to_server"))

\* the call returned on its third attempt, after two failures and six
\* seconds of sleep; nodes exist and a poll was made
C37_Witness ==
    /\ loop.pc = "read_values" /\ loop.connected
    /\ loop.attempts = 3 /\ loop.slept = 2 * RETRY_SLEEP
    /\ loop.nodes /\ loop.polls = 1

\* the results a and b of check_if_anomaly(v) and check_if_anomaly(-v) on the
\* unit u agree in everything but the sign of the value stored
SameUpToSign(u, a, b, v) ==
    /\ a.exc = b.exc
    /\ a.unit.z_score = b.unit.z_score /\ a.unit.anomaly = b.unit.anomaly
    /\ a.unit.model_avg = b.unit.model_avg
    /\ a.unit.model_std_dev = b.unit.model_std_dev
    /\ IF is_model_complete(u) /\ (a.exc # "none" \/ a.unit.anomaly = 1)
       THEN a.unit.model_data = u.model_data /\ b.unit.model_data = u.model_data
       ELSE LET kept == IF is_model_complete(u) THEN Tail(u.model_data)
                        ELSE u.model_data
            IN  /\ a.unit.model_data = Append(kept, v)
                /\ b.unit.model_data = Append(kept, -v)

\* C38: on the same unit check_if_anomaly(v) and check_if_anomaly(-v)
\* compute the same z-score and the same anomaly flag, and a value that is
\* stored in the window is stored with its sign.
C38_SignSymmetry ==
    \A v \in NumericValues :
        \E a \in {check_if_anomaly(unit, v)} :
        \E b \in {check_if_anomaly(unit, -v)} :
            SameUpToSign(unit, a, b, v)

\* the value -2 was classified non-anomalous against the window [3, 1], with
\* the z-score 0 of its magnitude, and stored as -2
C38_Witness ==
    /\ Classified /\ last.arg = -2
    /\ unit.z_score = 0 /\ unit.anomaly = 0 /\ unit.model_avg = <<2, 1>>
    /\ unit.model_data = <<1, -2>>

\* the deviation whose square is var and the z-score z (in units of 10^-4)
\* are the same number
SameNumber(var, z) ==
    /\ z >= 0
    /\ RoundSqrt4(var[1], var[2]) = z
    /\ var[1] * 100000000 = z * z * var[2]

\* C39: the tuple time_type_analytics returns holds anomaly, anomaly_ratio,
\* model_avg, z_score and z_score_thresh of the unit mapped to the time type,
\* as they are after the call; the fourth element is the unit's z-score.
C39_ReturnsUnitValues ==
    (last.op = "time_type_analytics" /\ last.exc = "none") =>
        LET obj == dets[last.target]
        IN  /\ last.ret[1] = obj.anomaly
            /\ last.ret[2] = obj.anomaly_ratio
            /\ last.ret[3] = obj.model_avg
            /\ SameNumber(last.ret[4], obj.z_score)
            /\ last.ret[5] = obj.z_score_thresh

====
